---- MODULE Spec2Model ----
(***************************************************************************)
(* Avalon Tunnel: identity registry (app/database/database.py), config     *)
(* synthesizer (app/services/config_service.py, user_service.py), decoy    *)
(* traffic engine (app/api_server.py) and administrative surface           *)
(* (app/api/routes.py, app/api/auth.py).                                   *)
(***************************************************************************)
EXTENDS Integers, Sequences, FiniteSets, TLC

\* ------------------------------------------------------------------ bounds
MaxTime == 1
MaxAudit == 2
MaxId == 3
MaxRuns == 2
MaxListLen == 3
MaxRows == 2
MaxCount == 3
MaxEvents == 2

\* ------------------------------------------------------- program constants
DefaultV2rayPort == 10000
ChunkSize == 65536
RandintLow == 1
RandintHigh == 300

\* ------------------------------------------------------------- input sets
Uuids == {"u1", "u2"}
Emails == {"a@x", "b@x"}
SecretPaths == {"p1", "p2"}
Domains == {"d.example"}
PortSettings == {"20000"}
UserIds == {1, 2}
UserAgents == {"ua1", "ua2"}
SourceIps == {"ip1", "ip2"}
AccessedPaths == {"/p1", "/p2"}
VideoSizes == {0, 1, 1000, 150000}
RangeStarts == {"", "0", "1", "100", "999", "1000", "65536", "abc"}
RangeEnds == {"", "0", "99", "999", "1000", "65535", "149999", "x"}
RangeHeaders ==
    {"bytes=" \o a \o "-" \o b : a \in RangeStarts, b \in RangeEnds}
        \cup {"", "bytes=5", "5-9", "bytes=1-2-3", "items=0-5"}
SegmentIds == {"1700000000"}
DECOY_PATH == "MwH1HvttOawqljoOZFIYImPi2adY0CLG"
DecoyPaths == {"", DECOY_PATH, "index.html"}
Accepts == {"", "text/html", "application/json, text/event-stream"}
ApiSecrets == {"", "s3cret"}
Credentials == {"", "s3cret", "wrong"}
UpdateBodies ==
    {<<>>} \cup {("email" :> e) : e \in Emails}
           \cup {("enabled" :> b) : b \in BOOLEAN}
\* the processes that run reload_configs over the one base_dir
Workers == {1, 2}

AdminOps == {"create_user", "list_users", "get_user", "update_user",
             "delete_user", "reload_config", "list_all_devices",
             "list_user_devices"}
ChatUsers == {"Alice", "Bob", "Charlie", "Diana"}
CHAT_MESSAGES == {"Hey, anyone online?", "Just finished watching that video",
                  "This platform is pretty cool", "Great content today!",
                  "Thanks for the invite"}

VARIABLES
    users,          \* table users, in rowid order
    audit_logs,     \* table audit_logs, in insertion order
    settings,       \* table settings: key -> value, for the keys present
    now,            \* CURRENT_TIMESTAMP of the store
    config_json,    \* content of the file config.json
    caddyfile,      \* content of the file Caddyfile
    acme_staging,   \* environment variable ACME_STAGING
    synced,         \* arguments of the latest sync_all_configs call
    runs,           \* number of sync_all_configs calls made on the stored input
    in_sync,        \* the input (domain, users, v2ray_port) of the synthesis runs
    reloads,        \* the reload_configs calls under way: position and locals
    last,           \* the latest call and what it returned
    device_access_logs, \* table device_access_logs
    video_file,     \* public/video.mp4: whether it exists, and its size
    decoy_html,     \* whether public/decoy.html exists
    request,        \* the latest request to the decoy surface
    response,       \* the response it got
    sse,            \* the event stream of generate_chat_events
    api_secret,     \* environment variable API_SECRET
    admin           \* the latest request to the administrative surface

vars == <<users, audit_logs, settings, now, config_json, caddyfile,
          acme_staging, synced, runs, in_sync, reloads, last, device_access_logs,
          video_file, decoy_html, request, response, sse, api_secret, admin>>

registryVars == <<users, audit_logs, settings, now>>
fileVars == <<config_json, caddyfile, synced>>
synthVars == <<config_json, caddyfile, acme_staging, synced, runs, in_sync, reloads>>
deviceVars == <<device_access_logs>>
decoyVars == <<video_file, decoy_html, request, response, sse>>
adminVars == <<api_secret, admin>>

NoCall == [op |-> "none"]
NoSync == [domain |-> "", users |-> <<>>, v2ray_port |-> 0]
NoReload == [pc |-> "idle", domain |-> "", users |-> <<>>, v2ray_port |-> 0]
NoRequest == [path |-> "none", range |-> "", accept |-> ""]
NoResponse == [status |-> 0]
NoEvent == [user |-> "", message |-> ""]
NoStream == [pc |-> "none", connected |-> FALSE, wait_seconds |-> 0, slept |-> 0,
             since_open |-> 0, events |-> 0, event |-> NoEvent]
NoAdmin == [op |-> "none"]

\* ------------------------------------------------------------ conversions
Digit(c) ==
    CASE c = "0" -> 0 [] c = "1" -> 1 [] c = "2" -> 2 [] c = "3" -> 3
      [] c = "4" -> 4 [] c = "5" -> 5 [] c = "6" -> 6 [] c = "7" -> 7
      [] c = "8" -> 8 [] c = "9" -> 9 [] OTHER -> -1

IsDigits(s) ==
    /\ Len(s) > 0
    /\ \A i \in 1..Len(s) : Digit(SubSeq(s, i, i)) >= 0

RECURSIVE ParseInt(_)
ParseInt(s) ==
    IF Len(s) = 0 THEN 0
    ELSE 10 * ParseInt(SubSeq(s, 1, Len(s) - 1)) + Digit(SubSeq(s, Len(s), Len(s)))

\* str.replace(old, new): every occurrence, left to right; old is not empty
RECURSIVE Replace(_, _, _)
Replace(s, old, new) ==
    IF Len(s) < Len(old) THEN s
    ELSE IF SubSeq(s, 1, Len(old)) = old
         THEN new \o Replace(SubSeq(s, Len(old) + 1, Len(s)), old, new)
         ELSE SubSeq(s, 1, 1) \o Replace(SubSeq(s, 2, Len(s)), old, new)

\* str.split(sep) for a separator of one character
RECURSIVE Split(_, _)
Split(s, sep) ==
    LET at == {i \in 1..Len(s) : SubSeq(s, i, i) = sep}
    IN  IF at = {} THEN <<s>>
        ELSE LET i == CHOOSE j \in at : \A k \in at : j <= k
             IN  <<SubSeq(s, 1, i - 1)>> \o Split(SubSeq(s, i + 1, Len(s)), sep)

\* sub in s
Contains(s, sub) ==
    \E i \in 1..(Len(s) - Len(sub) + 1) : SubSeq(s, i, i + Len(sub) - 1) = sub

Min(a, b) == IF a <= b THEN a ELSE b

\* --------------------------------------------------------- config service
Inbound(user, port) ==
    [ port     |-> port,
      protocol |-> "vless",
      clients  |-> << [id |-> user.uuid, level |-> user.level, email |-> user.email] >>,
      network  |-> "ws",
      path     |-> "/" \o user.secret_path,
      tag      |-> "inbound-" \o user.email ]

RECURSIVE V2rayInboundsNoPathCheck(_, _, _)
V2rayInboundsNoPathCheck(us, v2ray_port_base, port_offset) ==
    IF us = <<>> THEN <<>>
    ELSE LET user == Head(us) IN
         IF user.enabled = 0
         THEN V2rayInboundsNoPathCheck(Tail(us), v2ray_port_base, port_offset)
         ELSE <<Inbound(user, v2ray_port_base + port_offset)>>
              \o V2rayInboundsNoPathCheck(Tail(us), v2ray_port_base, port_offset + 1)

\* a port_offset that also counts the users the loop skips
RECURSIVE V2rayInboundsListIndex(_, _, _)
V2rayInboundsListIndex(us, v2ray_port_base, port_offset) ==
    IF us = <<>> THEN <<>>
    ELSE LET user == Head(us) IN
         IF user.enabled = 0 \/ user.secret_path = ""
         THEN V2rayInboundsListIndex(Tail(us), v2ray_port_base, port_offset + 1)
         ELSE <<Inbound(user, v2ray_port_base + port_offset)>>
              \o V2rayInboundsListIndex(Tail(us), v2ray_port_base, port_offset + 1)

\* a loop that ends at the first user without secret_path
RECURSIVE V2rayInboundsStopAtMissing(_, _, _)
V2rayInboundsStopAtMissing(us, v2ray_port_base, port_offset) ==
    IF us = <<>> THEN <<>>
    ELSE LET user == Head(us) IN
         IF user.enabled = 0
         THEN V2rayInboundsStopAtMissing(Tail(us), v2ray_port_base, port_offset)
         ELSE IF user.secret_path = ""
         THEN <<>>
         ELSE <<Inbound(user, v2ray_port_base + port_offset)>>
              \o V2rayInboundsStopAtMissing(Tail(us), v2ray_port_base, port_offset + 1)

RECURSIVE V2rayInbounds(_, _, _)
V2rayInbounds(us, v2ray_port_base, port_offset) ==
    IF us = <<>> THEN <<>>
    ELSE LET user == Head(us) IN
         IF user.enabled = 0
         THEN V2rayInbounds(Tail(us), v2ray_port_base, port_offset)
         ELSE IF user.secret_path = ""
         THEN V2rayInbounds(Tail(us), v2ray_port_base, port_offset)
         ELSE <<Inbound(user, v2ray_port_base + port_offset)>>
              \o V2rayInbounds(Tail(us), v2ray_port_base, port_offset + 1)

GenerateV2rayConfig(us, v2ray_port_base) ==
    [ inbounds  |-> V2rayInbounds(us, v2ray_port_base, 0),
      outbounds |-> <<"direct", "blocked">>,
      routing   |-> "blocked-private-ranges" ]

UserHandle(user, user_port) ==
    [ email |-> user.email,
      uuid  |-> user.uuid,
      port  |-> user_port,
      path  |-> "/" \o user.secret_path,
      proxy |-> user_port ]

RECURSIVE UserHandlesSamePort(_, _, _)
UserHandlesSamePort(us, v2ray_port, port_offset) ==
    IF us = <<>> THEN <<>>
    ELSE LET user == Head(us) IN
         IF user.enabled = 0 \/ user.secret_path = ""
         THEN UserHandlesSamePort(Tail(us), v2ray_port, port_offset)
         ELSE <<UserHandle(user, v2ray_port + port_offset)>>
              \o UserHandlesSamePort(Tail(us), v2ray_port, port_offset)

\* a port_offset that also counts the users the loop skips
RECURSIVE UserHandlesListIndex(_, _, _)
UserHandlesListIndex(us, v2ray_port, port_offset) ==
    IF us = <<>> THEN <<>>
    ELSE LET user == Head(us) IN
         IF user.enabled = 0 \/ user.secret_path = ""
         THEN UserHandlesListIndex(Tail(us), v2ray_port, port_offset + 1)
         ELSE <<UserHandle(user, v2ray_port + port_offset)>>
              \o UserHandlesListIndex(Tail(us), v2ray_port, port_offset + 1)

RECURSIVE UserHandles(_, _, _)
UserHandles(us, v2ray_port, port_offset) ==
    IF us = <<>> THEN <<>>
    ELSE LET user == Head(us) IN
         IF user.enabled = 0 \/ user.secret_path = ""
         THEN UserHandles(Tail(us), v2ray_port, port_offset)
         ELSE <<UserHandle(user, v2ray_port + port_offset)>>
              \o UserHandles(Tail(us), v2ray_port, port_offset + 1)

FixedRoutes == <<"/api/*", "/docs", "/redoc", "/openapi.json", "/*">>

GenerateCaddyfile(domain, us, v2ray_port, use_staging) ==
    [ domain       |-> domain,
      tls_config   |-> IF use_staging THEN "acme-staging" ELSE "",
      user_handles |-> UserHandles(us, v2ray_port, 0),
      fixed        |-> FixedRoutes ]

\* the template with the fixed routes above {user_handles}
HandleBlocksFixedFirst(content) ==
    content.fixed
        \o [k \in 1..Len(content.user_handles) |-> content.user_handles[k].path]

\* the paths of the handle blocks of a Caddyfile, in the order of the text:
\* the template puts {user_handles} above the five fixed blocks
HandleBlocks(content) ==
    [k \in 1..Len(content.user_handles) |-> content.user_handles[k].path]
        \o content.fixed

\* open(path, 'w') truncates: the file holds the one document written last
WriteAppend(old, content) == old \o <<content>>
WriteFile(old, content) == <<content>>

UseStaging == acme_staging \in {"1", "true", "yes"}

SyncAllConfigs(domain, us, v2ray_port) ==
    /\ config_json' = WriteFile(config_json, GenerateV2rayConfig(us, v2ray_port))
    /\ caddyfile' = WriteFile(caddyfile,
                              GenerateCaddyfile(domain, us, v2ray_port, UseStaging))
    /\ synced' = [domain |-> domain, users |-> us, v2ray_port |-> v2ray_port]

\* ------------------------------------------------------------ the store
\* schema.sql: users.uuid, users.email and users.secret_path are UNIQUE
UniqueViolation(tbl, row, except) ==
    \E j \in DOMAIN tbl :
        /\ j \notin except
        /\ \/ tbl[j].uuid = row.uuid
           \/ tbl[j].email = row.email
           \/ tbl[j].secret_path = row.secret_path

\* schema.sql: users.id is the rowid
NextRowId(tbl) ==
    IF tbl = <<>> THEN 1
    ELSE 1 + CHOOSE m \in {tbl[j].id : j \in DOMAIN tbl} :
                 \A j \in DOMAIN tbl : tbl[j].id <= m

\* schema.sql: the column defaults of a new users row
NewUserRow(tbl, user_uuid, email, secret_path, level, notes) ==
    [ id          |-> NextRowId(tbl),
      uuid        |-> user_uuid,
      email       |-> email,
      secret_path |-> secret_path,
      level       |-> level,
      enabled     |-> 1,
      notes       |-> notes,
      created_at  |-> now ]

\* a log that keeps its latest entry only
LogAuditOverwrite(log, action, target, audit) ==
    IF audit = "ok"
    THEN <<[action |-> action, target |-> target]>>
    ELSE log

\* what happens to the audit write of a call: "ok", "insert fails" when the
\* INSERT or its commit raises (inside the try of _log_audit), or "connect
\* fails" when sqlite3.connect raises in _get_connection (line 340, before
\* the try)
AuditOutcomes == {"ok", "insert fails", "connect fails"}

\* Database._log_audit: the insert, or nothing when the write fails
LogAudit(log, action, target, audit) ==
    IF audit = "ok"
    THEN Append(log, [action |-> action, target |-> target])
    ELSE log

\* what the caller of an operation gets once it has called _log_audit: the
\* return value, or the exception that _log_audit did not catch
Returned(ret, audit) == IF audit = "connect fails" THEN "OperationalError" ELSE ret

GetUserByUuid(tbl, user_uuid) == {j \in DOMAIN tbl : tbl[j].uuid = user_uuid}

CreateCall(user_uuid, email, secret_path) ==
    [op |-> "create_user", uuid |-> user_uuid, email |-> email,
     secret_path |-> secret_path]

\* Database.create_user
CreateUserAlways(email, secret_path, user_uuid, level, notes, audit) ==
    /\ Len(audit_logs) < MaxAudit
    /\ NextRowId(users) <= MaxId
    /\ \E gen \in (IF user_uuid = "" THEN Uuids ELSE {user_uuid}) :
        LET row == NewUserRow(users, gen, email, secret_path, level, notes) IN
        /\ users' = Append(users, row)
        /\ audit_logs' = LogAudit(audit_logs, "create_user", row.id, audit)
        /\ last' = CreateCall(gen, email, secret_path)
                 @@ [ret |-> Returned("user", audit)]
    /\ UNCHANGED <<settings, now>>

CreateUserAuditFirst(email, secret_path, user_uuid, level, notes, audit) ==
    /\ Len(audit_logs) < MaxAudit
    /\ NextRowId(users) <= MaxId
    /\ \E gen \in (IF user_uuid = "" THEN Uuids ELSE {user_uuid}) :
        LET row == NewUserRow(users, gen, email, secret_path, level, notes) IN
        /\ audit_logs' = LogAudit(audit_logs, "create_user", row.id, audit)
        /\ IF UniqueViolation(users, row, {})
           THEN /\ last' = CreateCall(gen, email, secret_path) @@ [ret |-> "ValueError"]
                /\ UNCHANGED users
           ELSE /\ users' = Append(users, row)
                /\ last' = CreateCall(gen, email, secret_path)
                 @@ [ret |-> Returned("user", audit)]
    /\ UNCHANGED <<settings, now>>

CreateUser(email, secret_path, user_uuid, level, notes, audit) ==
    /\ Len(audit_logs) < MaxAudit
    /\ NextRowId(users) <= MaxId
    /\ \E gen \in (IF user_uuid = "" THEN Uuids ELSE {user_uuid}) :
        LET row == NewUserRow(users, gen, email, secret_path, level, notes) IN
        IF UniqueViolation(users, row, {})
        THEN /\ last' = CreateCall(gen, email, secret_path) @@ [ret |-> "ValueError"]
             /\ UNCHANGED <<users, audit_logs>>
        ELSE /\ users' = Append(users, row)
             /\ audit_logs' = LogAudit(audit_logs, "create_user", row.id, audit)
             /\ last' = CreateCall(gen, email, secret_path)
                 @@ [ret |-> Returned("user", audit)]
    /\ UNCHANGED <<settings, now>>

\* the keyword arguments a caller may pass to update_user
KwargKeys == {"email", "secret_path", "level", "enabled", "notes", "uuid"}

Kwargs ==
    {<<>>}
    \cup {("email" :> e) : e \in Emails}
    \cup {("secret_path" :> p) : p \in SecretPaths}
    \cup {("enabled" :> v) : v \in {0, 1}}
    \cup {("notes" :> "n")}
    \cup {("uuid" :> u) : u \in Uuids}
    \cup {("uuid" :> u) @@ ("enabled" :> 0) : u \in Uuids}

AllowedFields == {"email", "secret_path", "level", "enabled", "notes"}

\* every keyword argument is taken as a column
UpdatesUnfiltered(kwargs) == kwargs

Updates(kwargs) == [k \in (DOMAIN kwargs) \cap AllowedFields |-> kwargs[k]]

ApplyUpdates(row, updates) ==
    [f \in DOMAIN row |-> IF f \in DOMAIN updates THEN updates[f] ELSE row[f]]

\* Database.update_user (UserService.update_user passes its arguments through)
UpdateUser(user_uuid, kwargs, audit) ==
    LET updates == Updates(kwargs)
        hit == GetUserByUuid(users, user_uuid)
        call == [op |-> "update_user", keys |-> DOMAIN kwargs]
    IN
    /\ Len(audit_logs) < MaxAudit
    /\ IF DOMAIN updates = {}
       THEN /\ last' = call @@ [ret |-> "False"]
            /\ UNCHANGED <<users, audit_logs>>
       ELSE IF \E j \in hit : UniqueViolation(users, ApplyUpdates(users[j], updates), {j})
       THEN /\ last' = call @@ [ret |-> "IntegrityError"]
            /\ UNCHANGED <<users, audit_logs>>
       ELSE IF hit # {}
       THEN /\ users' = [j \in DOMAIN users |->
                            IF j \in hit THEN ApplyUpdates(users[j], updates)
                            ELSE users[j]]
            /\ audit_logs' = LogAudit(audit_logs, "update_user", user_uuid, audit)
            /\ last' = call @@ [ret |-> Returned("True", audit)]
       ELSE /\ last' = call @@ [ret |-> "False"]
            /\ UNCHANGED <<users, audit_logs>>
    /\ UNCHANGED <<settings, now>>

\* Database.delete_user
DeleteUser(user_uuid, audit) ==
    LET hit == GetUserByUuid(users, user_uuid) IN
    /\ Len(audit_logs) < MaxAudit
    /\ IF hit # {}
       THEN /\ users' = SelectSeq(users, LAMBDA r : r.uuid # user_uuid)
            /\ audit_logs' = LogAudit(audit_logs, "delete_user", user_uuid, audit)
            /\ last' = [op |-> "delete_user", ret |-> Returned("True", audit)]
       ELSE /\ last' = [op |-> "delete_user", ret |-> "False"]
            /\ UNCHANGED <<users, audit_logs>>
    /\ UNCHANGED <<settings, now>>

\* the store's clock advances
Tick ==
    /\ now < MaxTime
    /\ now' = now + 1
    /\ UNCHANGED <<users, audit_logs, settings, last>>

\* Database.set_setting
SetSetting(key, value, audit) ==
    /\ Len(audit_logs) < MaxAudit
    /\ settings' = [k \in (DOMAIN settings) \cup {key} |->
                       IF k = key THEN value ELSE settings[k]]
    /\ audit_logs' = LogAudit(audit_logs, "update_setting", key, audit)
    /\ last' = [op |-> "set_setting", key |-> key, value |-> value,
                ret |-> Returned("None", audit)]
    /\ UNCHANGED <<users, now>>

\* INSERT INTO settings ... ON CONFLICT(key) DO UPDATE SET value
WithSetting(tbl, key, value) ==
    [k \in (DOMAIN tbl) \cup {key} |-> IF k = key THEN value ELSE tbl[k]]

\* Database.is_initialized
IsInitialized(tbl) ==
    IF "initialized" \in DOMAIN tbl /\ tbl["initialized"] # ""
    THEN tbl["initialized"] = "1"
    ELSE FALSE

\* Database.mark_as_initialized
MarkAsInitialized(audit) == SetSetting("initialized", "1", audit)

\* the parameters of Database.create_user that have no default
CreateUserRequired == {"email", "secret_path"}

\* the keyword arguments initialize_system passes to create_user
DefaultUserArgs ==
    ("email" :> "default@avalon-tunnel.com") @@ ("notes" :> "default user")

\* AvalonTunnelManager.initialize_system; secret_path is the value that
\* generate_secret_path returns. A call of create_user that leaves a required
\* parameter unbound raises TypeError, a uniqueness conflict raises
\* ValueError, set_setting raises what its _log_audit does not catch; the
\* except of line 114 takes them all and the method returns False with what
\* it had stored before
InitializeSystem(secret_path, audit) ==
    LET call == [op |-> "initialize_system"]
        args == DefaultUserArgs
        stored == WithSetting(settings, "secret_path", secret_path)
        logged == LogAudit(audit_logs, "update_setting", "secret_path", audit)
    IN
    /\ Len(audit_logs) < MaxAudit
    /\ IF IsInitialized(settings)
       THEN /\ last' = call @@ [ret |-> TRUE]
            /\ UNCHANGED <<users, audit_logs, settings>>
       ELSE IF audit = "connect fails" \/ ~(CreateUserRequired \subseteq DOMAIN args)
       THEN /\ settings' = stored
            /\ audit_logs' = logged
            /\ last' = call @@ [ret |-> FALSE]
            /\ UNCHANGED users
       ELSE \E gen \in Uuids :
            LET row == NewUserRow(users, gen, args["email"], args["secret_path"],
                                  0, args["notes"])
            IN  IF UniqueViolation(users, row, {})
                THEN /\ settings' = stored
                     /\ audit_logs' = logged
                     /\ last' = call @@ [ret |-> FALSE]
                     /\ UNCHANGED users
                ELSE /\ users' = Append(users, row)
                     /\ settings' = WithSetting(stored, "initialized", "1")
                     /\ audit_logs' =
                          LogAudit(LogAudit(logged, "create_user", row.id, audit),
                                   "update_setting", "initialized", audit)
                     /\ last' = call @@ [ret |-> TRUE]
    /\ UNCHANGED now

\* Database.get_all_users: the rows selected, ORDER BY created_at; rows of one
\* timestamp come in an order the query does not fix
GetAllUsers(tbl, enabled_only) ==
    LET rows == IF enabled_only THEN SelectSeq(tbl, LAMBDA r : r.enabled = 1) ELSE tbl
        rng == {rows[j] : j \in DOMAIN rows}
    IN  { s \in [1..Len(rows) -> rng] :
            /\ \A r \in rng : \E j \in DOMAIN s : s[j] = r
            /\ \A j, k \in DOMAIN s : j < k => s[j].created_at <= s[k].created_at }

\* Database.get_all_users called on its own: the rows it returns
ListUsers(enabled_only) ==
    /\ \E us \in GetAllUsers(users, enabled_only) :
          last' = [op |-> "get_all_users", enabled_only |-> enabled_only, ret |-> us]
    /\ UNCHANGED registryVars

\* int(self.db.get_setting('v2ray_port') or 10000)
V2rayPortText ==
    IF "v2ray_port" \in DOMAIN settings THEN settings["v2ray_port"] ELSE ""

\* a reload that puts the old documents back when the restart did not succeed
ReloadConfigsRollback(domain, restart) ==
    /\ UNCHANGED registryVars
    /\ \E us \in GetAllUsers(users, TRUE) :
        IF restart # "ok"
        THEN /\ last' = [op |-> "reload_configs", success |-> FALSE,
                         message |-> restart, user_count |-> Len(us)]
             /\ UNCHANGED fileVars
        ELSE /\ SyncAllConfigs(domain, us, DefaultV2rayPort)
             /\ last' = [op |-> "reload_configs", success |-> TRUE,
                         message |-> restart, user_count |-> Len(us)]

\* UserService.reload_configs; restart is what the restart script did
ReloadConfigs(domain, restart) ==
    /\ UNCHANGED registryVars
    /\ \E us \in GetAllUsers(users, TRUE) :
        IF V2rayPortText # "" /\ ~IsDigits(V2rayPortText)
        THEN /\ last' = [op |-> "reload_configs", success |-> FALSE,
                         message |-> "reload failed", user_count |-> 0]
             /\ UNCHANGED fileVars
        ELSE LET v2ray_port == IF V2rayPortText = "" THEN DefaultV2rayPort
                               ELSE ParseInt(V2rayPortText)
             IN  /\ SyncAllConfigs(domain, us, v2ray_port)
                 /\ last' = [op |-> "reload_configs", success |-> (restart = "ok"),
                             message |-> restart, user_count |-> Len(us)]

\* reload_configs, statement by statement: the SELECT of get_all_users and the
\* read of v2ray_port, then the two writes of sync_all_configs in their order,
\* then the restart and the return. Nothing in UserService or ConfigService
\* holds a lock or writes a document under another name first.
ReloadBegin(w, domain) ==
    /\ reloads[w].pc = "idle"
    /\ \E us \in GetAllUsers(users, TRUE) :
        IF V2rayPortText # "" /\ ~IsDigits(V2rayPortText)
        THEN /\ last' = [op |-> "reload_configs", success |-> FALSE,
                         message |-> "reload failed", user_count |-> 0]
             /\ UNCHANGED reloads
        ELSE /\ reloads' = [reloads EXCEPT ![w] =
                              [pc |-> "write_v2ray_config", domain |-> domain,
                               users |-> us,
                               v2ray_port |-> IF V2rayPortText = ""
                                              THEN DefaultV2rayPort
                                              ELSE ParseInt(V2rayPortText)]]
             /\ UNCHANGED last
    /\ UNCHANGED <<registryVars, fileVars>>

\* the routing table written where the tunnel-ingress document is written
WriteCaddyfileFirst(w) ==
    /\ reloads[w].pc = "write_v2ray_config"
    /\ caddyfile' = WriteFile(caddyfile,
                              GenerateCaddyfile(reloads[w].domain, reloads[w].users,
                                                reloads[w].v2ray_port, UseStaging))
    /\ reloads' = [reloads EXCEPT ![w].pc = "write_caddyfile"]
    /\ UNCHANGED <<registryVars, config_json, synced, last>>

\* generate_v2ray_config and write_v2ray_config
WriteV2rayConfig(w) ==
    /\ reloads[w].pc = "write_v2ray_config"
    /\ config_json' = WriteFile(config_json,
                                GenerateV2rayConfig(reloads[w].users,
                                                    reloads[w].v2ray_port))
    /\ reloads' = [reloads EXCEPT ![w].pc = "write_caddyfile"]
    /\ UNCHANGED <<registryVars, caddyfile, synced, last>>

\* generate_caddyfile and write_caddyfile, then the restart and the return
WriteCaddyfile(w, restart) ==
    /\ reloads[w].pc = "write_caddyfile"
    /\ caddyfile' = WriteFile(caddyfile,
                              GenerateCaddyfile(reloads[w].domain, reloads[w].users,
                                                reloads[w].v2ray_port, UseStaging))
    /\ synced' = [domain |-> reloads[w].domain, users |-> reloads[w].users,
                  v2ray_port |-> reloads[w].v2ray_port]
    /\ last' = [op |-> "reload_configs", success |-> (restart = "ok"),
                message |-> restart, user_count |-> Len(reloads[w].users)]
    /\ reloads' = [reloads EXCEPT ![w] = NoReload]
    /\ UNCHANGED <<registryVars, config_json>>

\* ------------------------------------------------- the registry, specified
\* ---- device access log (database.py) ----

\* the rows the ON CONFLICT(user_id, user_agent, source_ip) target matches
ConflictRows(tbl, user_id, user_agent, source_ip) ==
    {r \in tbl : /\ r.user_id = user_id
                 /\ r.user_agent = user_agent
                 /\ r.source_ip = source_ip}

\* the row INSERT stores: the columns it does not name take their defaults
NewDeviceRow(user_id, user_agent, source_ip, accessed_path) ==
    [user_id |-> user_id, user_agent |-> user_agent, source_ip |-> source_ip,
     accessed_path |-> accessed_path, first_seen_at |-> now,
     last_seen_at |-> now, access_count |-> 1]

\* INSERT OR REPLACE instead of the upsert: the old row is dropped
DoReplace(r, accessed_path) ==
    NewDeviceRow(r.user_id, r.user_agent, r.source_ip, accessed_path)

\* DO UPDATE SET last_seen_at, access_count, accessed_path
DoUpdate(r, accessed_path) ==
    [r EXCEPT !.last_seen_at = now,
              !.access_count = r.access_count + 1,
              !.accessed_path = accessed_path]

\* a call that raises returns nothing: ret is then FALSE and raised names the
\* exception the caller gets
StoreOutcomes == {"ok", "connect fails", "execute fails"}

DeviceCall(user_id, user_agent, source_ip, accessed_path) ==
    [op |-> "record_device_access", user_id |-> user_id,
     user_agent |-> user_agent, source_ip |-> source_ip,
     accessed_path |-> accessed_path]

\* store is what the store does in this call: "ok", "connect fails" when
\* sqlite3.connect raises in _get_connection (line 238, before the try), or
\* "execute fails" when the statement or the commit raises (inside the try)
RecordDeviceAccess(user_id, user_agent, source_ip, accessed_path, store) ==
    LET hit == ConflictRows(device_access_logs, user_id, user_agent, source_ip)
        call == DeviceCall(user_id, user_agent, source_ip, accessed_path)
    IN  /\ hit = {} => Cardinality(device_access_logs) < MaxRows
        /\ \A r \in hit : r.access_count < MaxCount
        /\ IF store = "connect fails"
           THEN /\ last' = call @@ [ret |-> FALSE, raised |-> "OperationalError"]
                /\ UNCHANGED device_access_logs
           ELSE IF store = "execute fails"
           THEN /\ last' = call @@ [ret |-> FALSE, raised |-> ""]
                /\ UNCHANGED device_access_logs
           ELSE /\ device_access_logs' =
                     IF hit = {}
                     THEN device_access_logs \cup
                          {NewDeviceRow(user_id, user_agent, source_ip, accessed_path)}
                     ELSE (device_access_logs \ hit) \cup
                          {DoUpdate(r, accessed_path) : r \in hit}
                /\ last' = call @@ [ret |-> TRUE, raised |-> ""]
        /\ UNCHANGED <<users, audit_logs, settings, now>>

\* ---- video segments (api_server.py) ----

\* @app.exception_handler(Exception)
GlobalExceptionHandler(exc) ==
    [status |-> 500, content |-> [success |-> FALSE, detail |-> exc]]

\* iterfile() of a range request: seek(start), then reads of at most
\* chunk_size bytes until remaining is used up or the file ends
RECURSIVE IterRange(_, _, _)
IterRange(pos, remaining, file_size) ==
    IF remaining <= 0 THEN <<>>
    ELSE LET want == Min(ChunkSize, remaining)
             got == IF pos >= file_size THEN 0 ELSE Min(want, file_size - pos)
         IN  IF got = 0 THEN <<>>
             ELSE <<[offset |-> pos, length |-> got]>>
                      \o IterRange(pos + got, remaining - got, file_size)

\* iterfile() of a full request: reads of chunk_size bytes until the file ends
RECURSIVE IterFile(_, _)
IterFile(pos, file_size) ==
    LET got == IF pos >= file_size THEN 0 ELSE Min(ChunkSize, file_size - pos)
    IN  IF got = 0 THEN <<>>
        ELSE <<[offset |-> pos, length |-> got]>> \o IterFile(pos + got, file_size)

ContentRange(start, end, file_size) ==
    "bytes " \o ToString(start) \o "-" \o ToString(end) \o "/" \o ToString(file_size)

ContentLengthNoPlusOne(start, end) == ToString(end - start)
ContentLength(start, end) == ToString(end - start + 1)

EndDefault(file_size) == file_size - 1

NoCacheHeaders ==
    ("Cache-Control" :> "no-cache, no-store, must-revalidate")
        @@ ("Pragma" :> "no-cache") @@ ("Expires" :> "0")

\* int() of the texts drawn here: decimal digits, or ValueError
IntFails(text) == ~IsDigits(text)

RangeResponse(range_header, file_size) ==
    LET range_match == Split(Replace(range_header, "bytes=", ""), "-")
        has_end == Len(range_match) > 1 /\ range_match[2] # ""
    IN  IF \/ (range_match[1] # "" /\ IntFails(range_match[1]))
           \/ (has_end /\ IntFails(range_match[2]))
        THEN GlobalExceptionHandler("ValueError")
        ELSE LET start == IF range_match[1] # "" THEN ParseInt(range_match[1]) ELSE 0
                 end == IF has_end THEN ParseInt(range_match[2])
                        ELSE EndDefault(file_size)
             IN  [status |-> 206, media_type |-> "video/mp4",
                  headers |-> ("Content-Range" :> ContentRange(start, end, file_size))
                                @@ ("Accept-Ranges" :> "bytes")
                                @@ ("Content-Length" :> ContentLength(start, end))
                                @@ NoCacheHeaders,
                  body |-> IterRange(start, end - start + 1, file_size)]

FullResponse(file_size) ==
    [status |-> 200, media_type |-> "video/mp4",
     headers |-> ("Accept-Ranges" :> "bytes")
                   @@ ("Content-Length" :> ToString(file_size))
                   @@ NoCacheHeaders,
     body |-> IterFile(0, file_size)]

\* GET /stream/{segment_id}.mp4; range_header "" is an absent or empty header
ServeVideoSegment(segment_id, range_header) ==
    /\ request' = [path |-> "/stream/" \o segment_id \o ".mp4",
                   range |-> range_header, accept |-> ""]
    /\ response' =
         IF ~video_file.exists
         THEN [status |-> 404, content |-> "Video not found"]
         ELSE IF range_header # ""
              THEN RangeResponse(range_header, video_file.size)
              ELSE FullResponse(video_file.size)
    /\ UNCHANGED <<video_file, decoy_html, sse>>

\* ---- decoy endpoint and chat stream (api_server.py) ----

DecoyPage ==
    IF decoy_html THEN [status |-> 200, file |-> "decoy.html"]
    ELSE [status |-> 404, content |-> "Not Found"]

\* the generator before its first step: the client is connected, nothing sent
OpenStream ==
    [pc |-> "draw", connected |-> TRUE, wait_seconds |-> 0, slept |-> 0,
     since_open |-> 0, events |-> 0, event |-> NoEvent]

\* an endpoint that answers the disguise path without the event-stream
\* header like any unknown path
UnifiedDecoyEndpointNoPage(path, accept) ==
    /\ sse.pc \in {"none", "closed"}
    /\ request' = [path |-> "/" \o path, range |-> "", accept |-> accept]
    /\ IF path = ""
       THEN /\ response' = DecoyPage
            /\ UNCHANGED sse
       ELSE IF path = DECOY_PATH /\ Contains(accept, "text/event-stream")
            THEN /\ response' = [status |-> 200, media_type |-> "text/event-stream"]
                 /\ sse' = OpenStream
            ELSE /\ response' = [status |-> 404, content |-> "Not Found"]
                 /\ UNCHANGED sse
    /\ UNCHANGED <<video_file, decoy_html>>

\* GET /{path}: one client at a time is followed
UnifiedDecoyEndpoint(path, accept) ==
    /\ sse.pc \in {"none", "closed"}
    /\ request' = [path |-> "/" \o path, range |-> "", accept |-> accept]
    /\ IF path = ""
       THEN /\ response' = DecoyPage
            /\ UNCHANGED sse
       ELSE IF path = DECOY_PATH /\ Contains(accept, "text/event-stream")
            THEN /\ response' = [status |-> 200, media_type |-> "text/event-stream"]
                 /\ sse' = OpenStream
            ELSE /\ response' = IF path = DECOY_PATH /\ decoy_html
                                THEN [status |-> 200, file |-> "decoy.html"]
                                ELSE [status |-> 404, content |-> "Not Found"]
                 /\ UNCHANGED sse
    /\ UNCHANGED <<video_file, decoy_html>>

\* wait_seconds = random.randint(1, 300)
SseDraw ==
    /\ sse.pc = "draw"
    /\ \E w \in RandintLow..RandintHigh :
          sse' = [sse EXCEPT !.pc = "sleep", !.wait_seconds = w, !.slept = 0]
    /\ UNCHANGED <<video_file, decoy_html, request, response>>

\* one second of await asyncio.sleep(wait_seconds); since_open counts the
\* seconds from the opening of the stream up to its first event
SseSleep ==
    /\ sse.pc = "sleep"
    /\ sse.slept < sse.wait_seconds
    /\ sse' = [sse EXCEPT !.slept = sse.slept + 1,
                          !.since_open = IF sse.events = 0
                                         THEN sse.since_open + 1 ELSE 0]
    /\ UNCHANGED <<video_file, decoy_html, request, response>>

\* the sleep is over: yield {"data": json.dumps(event_data)}
SseYield ==
    /\ sse.pc = "sleep"
    /\ sse.slept = sse.wait_seconds
    /\ \E u \in ChatUsers, m \in CHAT_MESSAGES :
          sse' = [sse EXCEPT !.pc = "yield",
                             !.events = Min(sse.events + 1, MaxEvents),
                             !.event = [user |-> u, message |-> m]]
    /\ UNCHANGED <<video_file, decoy_html, request, response>>

\* a generator that returns after its event instead of looping
SseReturn ==
    /\ sse.pc = "yield"
    /\ sse' = [NoStream EXCEPT !.pc = "closed", !.connected = TRUE]
    /\ UNCHANGED <<video_file, decoy_html, request, response>>

\* the event is sent and the generator resumed: while True
SseResume ==
    /\ sse.pc = "yield"
    /\ sse' = [sse EXCEPT !.pc = "draw", !.event = NoEvent, !.since_open = 0]
    /\ UNCHANGED <<video_file, decoy_html, request, response>>

\* the client goes away and the response cancels the generator, whose
\* locals are gone with it
ClientDisconnect ==
    /\ sse.pc \in {"draw", "sleep", "yield"}
    /\ sse' = [NoStream EXCEPT !.pc = "closed"]
    /\ UNCHANGED <<video_file, decoy_html, request, response>>

\* ---- administrative surface (auth.py, routes.py, api_server.py) ----

\* auth.verify_api_token: the status it raises, or 200 when it returns True.
\* No route, and not the router, declares it as a dependency.
VerifyApiToken(credentials) ==
    IF api_secret = "" THEN 500
    ELSE IF credentials # api_secret THEN 401
    ELSE 200

\* what a route answers; credentials is the bearer token of the request,
\* "" when it carries none
Served(op, credentials, status_code) ==
    [op |-> op, credentials |-> credentials, status |-> status_code]

\* startup_event: database, ConfigService and routes are initialised
StartupEvent ==
    /\ admin.op = "none"
    /\ admin' = [op |-> "startup", credentials |-> "", status |-> 0]
    /\ UNCHANGED <<api_secret, registryVars, fileVars, last>>

Started == admin.op # "none"

\* POST /api/users
ApiCreateUser(credentials, email, audit) ==
    /\ Started
    /\ \E secret_path \in SecretPaths :
          CreateUser(email, secret_path, "", 0, "", audit)
    /\ admin' = Served("create_user", credentials,
                       IF last'.ret = "ValueError" THEN 400
                       ELSE IF last'.ret = "user" THEN 201 ELSE 500)
    /\ UNCHANGED <<api_secret, fileVars>>

\* GET /api/users
ApiListUsers(credentials, enabled_only) ==
    /\ Started
    /\ \E us \in GetAllUsers(users, enabled_only) :
          admin' = Served("list_users", credentials, 200)
    /\ UNCHANGED <<api_secret, registryVars, fileVars, last>>

\* GET /api/users/{user_uuid}
ApiGetUser(credentials, user_uuid) ==
    /\ Started
    /\ admin' = Served("get_user", credentials,
                       IF GetUserByUuid(users, user_uuid) = {} THEN 404 ELSE 200)
    /\ UNCHANGED <<api_secret, registryVars, fileVars, last>>

\* update_fields of PUT /api/users/{user_uuid}
UpdateFields(body) ==
    [k \in DOMAIN body |->
        IF k = "enabled" THEN (IF body[k] THEN 1 ELSE 0) ELSE body[k]]

\* PUT /api/users/{user_uuid}; an exception of the store reaches the global
\* exception handler
ApiUpdateUser(credentials, user_uuid, body) ==
    /\ Started
    /\ IF GetUserByUuid(users, user_uuid) = {}
       THEN /\ admin' = Served("update_user", credentials, 404)
            /\ UNCHANGED <<registryVars, last>>
       ELSE IF DOMAIN body = {}
       THEN /\ admin' = Served("update_user", credentials, 400)
            /\ UNCHANGED <<registryVars, last>>
       ELSE /\ UpdateUser(user_uuid, UpdateFields(body), "ok")
            /\ admin' = Served("update_user", credentials,
                               IF last'.ret = "True" THEN 200 ELSE 500)
    /\ UNCHANGED <<api_secret, fileVars>>

\* DELETE /api/users/{user_uuid}
ApiDeleteUser(credentials, user_uuid) ==
    /\ Started
    /\ IF GetUserByUuid(users, user_uuid) = {}
       THEN /\ admin' = Served("delete_user", credentials, 404)
            /\ UNCHANGED <<registryVars, last>>
       ELSE /\ DeleteUser(user_uuid, "ok")
            /\ admin' = Served("delete_user", credentials,
                               IF last'.ret = "True" THEN 204 ELSE 500)
    /\ UNCHANGED <<api_secret, fileVars>>

\* POST /api/config/reload
ApiReloadConfig(credentials, domain, restart) ==
    /\ Started
    /\ ReloadConfigs(domain, restart)
    /\ admin' = Served("reload_config", credentials,
                       IF last'.success THEN 200 ELSE 500)
    /\ UNCHANGED api_secret

\* GET /api/devices
ApiListAllDevices(credentials) ==
    /\ Started
    /\ admin' = Served("list_all_devices", credentials, 200)
    /\ UNCHANGED <<api_secret, registryVars, fileVars, last>>

\* GET /api/users/{user_uuid}/devices
ApiListUserDevices(credentials, user_uuid) ==
    /\ Started
    /\ admin' = Served("list_user_devices", credentials,
                       IF GetUserByUuid(users, user_uuid) = {} THEN 404 ELSE 200)
    /\ UNCHANGED <<api_secret, registryVars, fileVars, last>>

InitFiles ==
    /\ config_json = <<>>
    /\ caddyfile = <<>>
    /\ synced = NoSync
    /\ acme_staging = ""
    /\ reloads = [w \in Workers |-> NoReload]

InitRegistry ==
    /\ users = <<>>
    /\ audit_logs = <<>>
    /\ settings = <<>>
    /\ now = 0

InitDevice == device_access_logs = {}

InitDecoy ==
    /\ video_file = [exists |-> FALSE, size |-> 0]
    /\ decoy_html = FALSE
    /\ request = NoRequest
    /\ response = NoResponse
    /\ sse = NoStream

InitAdmin ==
    /\ api_secret = ""
    /\ admin = NoAdmin

Init ==
    /\ InitRegistry
    /\ InitFiles
    /\ runs = 0
    /\ in_sync = NoSync
    /\ last = NoCall
    /\ InitDevice
    /\ InitDecoy
    /\ InitAdmin

Next ==
    \/ /\ \E e \in Emails, p \in SecretPaths, u \in Uuids \cup {""}, a \in AuditOutcomes :
            CreateUser(e, p, u, 0, "", a)
       /\ UNCHANGED <<synthVars, deviceVars, decoyVars, adminVars>>
    \/ /\ \E u \in Uuids, kw \in Kwargs, a \in AuditOutcomes : UpdateUser(u, kw, a)
       /\ UNCHANGED <<synthVars, deviceVars, decoyVars, adminVars>>
    \/ /\ \E u \in Uuids, a \in AuditOutcomes : DeleteUser(u, a)
       /\ UNCHANGED <<synthVars, deviceVars, decoyVars, adminVars>>

Spec == Init /\ [][Next]_vars

\* ------------------------------------- registry and synthesis, specified
Profiles ==
    { [uuid |-> "u1", email |-> "a@x", secret_path |-> "p1"],
      [uuid |-> "u2", email |-> "b@x", secret_path |-> "p2"],
      [uuid |-> "u3", email |-> "c@x", secret_path |-> "p3"] }

NextReload ==
    \/ /\ \E p \in Profiles, a \in AuditOutcomes :
            CreateUser(p.email, p.secret_path, p.uuid, 0, "", a)
       /\ UNCHANGED <<synthVars, deviceVars, decoyVars, adminVars>>
    \/ /\ \E p \in Profiles, v \in {0, 1}, a \in AuditOutcomes :
            UpdateUser(p.uuid, ("enabled" :> v), a)
       /\ UNCHANGED <<synthVars, deviceVars, decoyVars, adminVars>>
    \/ /\ Tick
       /\ UNCHANGED <<synthVars, deviceVars, decoyVars, adminVars>>
    \/ /\ \E d \in Domains, r \in {"ok", "failed", "timeout"} : ReloadConfigs(d, r)
       /\ UNCHANGED <<acme_staging, runs, in_sync, reloads, deviceVars, decoyVars,
                      adminVars>>

SpecReload == Init /\ [][NextReload]_vars

\* ------------------------------------------- synthesis alone, specified
SynthPool ==
    UNION { { [ id |-> 0, uuid |-> p.uuid, email |-> p.email, secret_path |-> sp,
                level |-> 0, enabled |-> en, notes |-> "", created_at |-> 0 ]
              : sp \in {"", p.secret_path}, en \in {0, 1} }
            : p \in Profiles }

SynthLists == UNION { [1..n -> SynthPool] : n \in 0..MaxListLen }

SynthPorts == {DefaultV2rayPort, 20000}

InitSynth ==
    /\ InitRegistry
    /\ config_json = <<>>
    /\ caddyfile = <<>>
    /\ synced = NoSync
    /\ acme_staging \in {"", "1"}
    /\ runs = 0
    /\ in_sync \in [domain : Domains, users : SynthLists, v2ray_port : SynthPorts]
    /\ reloads = [w \in Workers |-> NoReload]
    /\ last = NoCall
    /\ InitDevice
    /\ InitDecoy
    /\ InitAdmin

\* one call sync_all_configs(domain, users, v2ray_port) on the stored input
SynthRun ==
    /\ runs < MaxRuns
    /\ SyncAllConfigs(in_sync.domain, in_sync.users, in_sync.v2ray_port)
    /\ runs' = runs + 1
    /\ last' = [op |-> "sync_all_configs"]
    /\ UNCHANGED <<users, audit_logs, settings, now, acme_staging, in_sync, reloads>>
    /\ UNCHANGED <<deviceVars, decoyVars, adminVars>>

NextSynth == SynthRun

SpecSynth == InitSynth /\ [][NextSynth]_vars

\* ---- the device access log on its own ----
NextDevice ==
    \/ /\ \E i \in UserIds, a \in UserAgents, ip \in SourceIps,
            pth \in AccessedPaths, st \in StoreOutcomes :
               RecordDeviceAccess(i, a, ip, pth, st)
       /\ UNCHANGED <<synthVars, decoyVars, adminVars>>
    \/ /\ Tick
       /\ UNCHANGED <<synthVars, deviceVars, decoyVars, adminVars>>

SpecDevice == Init /\ [][NextDevice]_vars

\* ---- the video route over a drawn file ----
InitMedia ==
    /\ InitRegistry
    /\ InitFiles
    /\ runs = 0
    /\ in_sync = NoSync
    /\ last = NoCall
    /\ InitDevice
    /\ InitAdmin
    /\ video_file \in {[exists |-> FALSE, size |-> 0]}
                        \cup {[exists |-> TRUE, size |-> n] : n \in VideoSizes}
    /\ decoy_html = FALSE
    /\ request = NoRequest
    /\ response = NoResponse
    /\ sse = NoStream

NextMedia ==
    /\ \E g \in SegmentIds, h \in RangeHeaders : ServeVideoSegment(g, h)
    /\ UNCHANGED <<registryVars, synthVars, last, deviceVars, adminVars>>

SpecMedia == InitMedia /\ [][NextMedia]_vars

\* ---- the decoy endpoint and its stream ----
InitStream ==
    /\ InitRegistry
    /\ InitFiles
    /\ runs = 0
    /\ in_sync = NoSync
    /\ last = NoCall
    /\ InitDevice
    /\ InitAdmin
    /\ video_file = [exists |-> FALSE, size |-> 0]
    /\ decoy_html \in BOOLEAN
    /\ request = NoRequest
    /\ response = NoResponse
    /\ sse = NoStream

elsewhereStream == <<registryVars, synthVars, last, deviceVars, adminVars>>

SseStep ==
    (SseDraw \/ SseSleep \/ SseYield \/ SseResume) /\ UNCHANGED elsewhereStream

NextStream ==
    \/ /\ \E pth \in DecoyPaths, a \in Accepts : UnifiedDecoyEndpoint(pth, a)
       /\ UNCHANGED elsewhereStream
    \/ SseDraw /\ UNCHANGED elsewhereStream
    \/ SseSleep /\ UNCHANGED elsewhereStream
    \/ SseYield /\ UNCHANGED elsewhereStream
    \/ SseResume /\ UNCHANGED elsewhereStream
    \/ ClientDisconnect /\ UNCHANGED elsewhereStream

\* the event loop runs a generator that can take a step
SpecStream == InitStream /\ [][NextStream]_vars /\ WF_vars(SseStep)

\* ---- the administrative surface of a deployment ----
InitApi ==
    /\ InitRegistry
    /\ InitFiles
    /\ runs = 0
    /\ in_sync = NoSync
    /\ last = NoCall
    /\ InitDevice
    /\ InitDecoy
    /\ api_secret \in ApiSecrets
    /\ admin = NoAdmin

elsewhereApi == <<acme_staging, runs, in_sync, reloads, deviceVars, decoyVars>>

NextApi ==
    \/ StartupEvent /\ UNCHANGED elsewhereApi
    \/ /\ \E c \in Credentials, e \in Emails : ApiCreateUser(c, e, "ok")
       /\ UNCHANGED elsewhereApi
    \/ /\ \E c \in Credentials, eo \in BOOLEAN : ApiListUsers(c, eo)
       /\ UNCHANGED elsewhereApi
    \/ /\ \E c \in Credentials, u \in Uuids : ApiGetUser(c, u)
       /\ UNCHANGED elsewhereApi
    \/ /\ \E c \in Credentials, u \in Uuids, b \in UpdateBodies : ApiUpdateUser(c, u, b)
       /\ UNCHANGED elsewhereApi
    \/ /\ \E c \in Credentials, u \in Uuids : ApiDeleteUser(c, u)
       /\ UNCHANGED elsewhereApi
    \/ /\ \E c \in Credentials, d \in Domains, r \in {"ok", "failed"} :
             ApiReloadConfig(c, d, r)
       /\ UNCHANGED elsewhereApi
    \/ /\ \E c \in Credentials : ApiListAllDevices(c)
       /\ UNCHANGED elsewhereApi
    \/ /\ \E c \in Credentials, u \in Uuids : ApiListUserDevices(c, u)
       /\ UNCHANGED elsewhereApi

SpecApi == InitApi /\ [][NextApi]_vars

\* ---- the user routes, called by the holder of the secret ----
NextApiUsers ==
    \/ StartupEvent /\ UNCHANGED elsewhereApi
    \/ /\ \E e \in Emails, a \in AuditOutcomes : ApiCreateUser("s3cret", e, a)
       /\ UNCHANGED elsewhereApi
    \/ /\ \E u \in Uuids : ApiGetUser("s3cret", u)
       /\ UNCHANGED elsewhereApi
    \/ /\ \E u \in Uuids, b \in UpdateBodies : ApiUpdateUser("s3cret", u, b)
       /\ UNCHANGED elsewhereApi
    \/ /\ \E u \in Uuids : ApiDeleteUser("s3cret", u)
       /\ UNCHANGED elsewhereApi
    \/ /\ \E u \in Uuids : ApiListUserDevices("s3cret", u)
       /\ UNCHANGED elsewhereApi

SpecApiUsers == InitApi /\ [][NextApiUsers]_vars

\* ---- users with device rows, and their removal ----
\* DELETE FROM users is the only statement delete_user issues, and the
\* connections of _get_connection leave foreign-key enforcement as SQLite
\* opens them (off): the device rows are outside the step
NextRemoval ==
    \/ /\ \E p \in Profiles : CreateUser(p.email, p.secret_path, p.uuid, 0, "", "ok")
       /\ UNCHANGED <<synthVars, deviceVars, decoyVars, adminVars>>
    \/ /\ \E i \in UserIds, a \in UserAgents, pth \in AccessedPaths :
               RecordDeviceAccess(i, a, "ip1", pth, "ok")
       /\ UNCHANGED <<synthVars, decoyVars, adminVars>>
    \/ /\ \E p \in Profiles : DeleteUser(p.uuid, "ok")
       /\ UNCHANGED <<synthVars, deviceVars, decoyVars, adminVars>>

SpecRemoval == Init /\ [][NextRemoval]_vars

\* ---- the registry and its listing ----
NextList ==
    \/ /\ \E p \in Profiles, a \in AuditOutcomes :
            CreateUser(p.email, p.secret_path, p.uuid, 0, "", a)
       /\ UNCHANGED <<synthVars, deviceVars, decoyVars, adminVars>>
    \/ /\ \E p \in Profiles, v \in {0, 1} :
            UpdateUser(p.uuid, ("enabled" :> v), "ok")
       /\ UNCHANGED <<synthVars, deviceVars, decoyVars, adminVars>>
    \/ /\ Tick
       /\ UNCHANGED <<synthVars, deviceVars, decoyVars, adminVars>>
    \/ /\ \E eo \in BOOLEAN : ListUsers(eo)
       /\ UNCHANGED <<synthVars, deviceVars, decoyVars, adminVars>>

SpecList == Init /\ [][NextList]_vars

\* ---- the store of a deployment: first start, settings, users ----
NextDeploy ==
    \/ /\ \E sp \in SecretPaths, a \in AuditOutcomes : InitializeSystem(sp, a)
       /\ UNCHANGED <<synthVars, deviceVars, decoyVars, adminVars>>
    \/ /\ \E a \in AuditOutcomes : MarkAsInitialized(a)
       /\ UNCHANGED <<synthVars, deviceVars, decoyVars, adminVars>>
    \/ /\ \E p \in Profiles, a \in AuditOutcomes :
            CreateUser(p.email, p.secret_path, p.uuid, 0, "", a)
       /\ UNCHANGED <<synthVars, deviceVars, decoyVars, adminVars>>

SpecDeploy == Init /\ [][NextDeploy]_vars

\* ---- the mutating operations of the store, each with its audit write ----
NextAudit ==
    \/ /\ \E pt \in PortSettings, a \in AuditOutcomes : SetSetting("v2ray_port", pt, a)
       /\ UNCHANGED <<synthVars, deviceVars, decoyVars, adminVars>>
    \/ /\ \E p \in Profiles, a \in AuditOutcomes :
            CreateUser(p.email, p.secret_path, p.uuid, 0, "", a)
       /\ UNCHANGED <<synthVars, deviceVars, decoyVars, adminVars>>
    \/ /\ \E p \in Profiles, v \in {0, 1}, a \in AuditOutcomes :
            UpdateUser(p.uuid, ("enabled" :> v), a)
       /\ UNCHANGED <<synthVars, deviceVars, decoyVars, adminVars>>
    \/ /\ \E p \in Profiles, a \in AuditOutcomes : DeleteUser(p.uuid, a)
       /\ UNCHANGED <<synthVars, deviceVars, decoyVars, adminVars>>

SpecAudit == Init /\ [][NextAudit]_vars

\* ---- reloads over users of which some have no secret_path ----
\* Database.create_user stores the secret_path it is given, the empty one too
NextCount ==
    \/ /\ \E p \in Profiles : \E sp \in {"", p.secret_path} :
            CreateUser(p.email, sp, p.uuid, 0, "", "ok")
       /\ UNCHANGED <<synthVars, deviceVars, decoyVars, adminVars>>
    \/ /\ \E p \in Profiles, v \in {0, 1} : UpdateUser(p.uuid, ("enabled" :> v), "ok")
       /\ UNCHANGED <<synthVars, deviceVars, decoyVars, adminVars>>
    \/ /\ \E d \in Domains, r \in {"ok", "failed", "timeout"} : ReloadConfigs(d, r)
       /\ UNCHANGED <<acme_staging, runs, in_sync, reloads, deviceVars, decoyVars,
                      adminVars>>

SpecCount == Init /\ [][NextCount]_vars

\* ---- reloads that overlap, and the registry changing under them ----
elsewhereReload == <<acme_staging, runs, in_sync, deviceVars, decoyVars, adminVars>>

NextConcurrent ==
    \/ /\ \E p \in Profiles : CreateUser(p.email, p.secret_path, p.uuid, 0, "", "ok")
       /\ UNCHANGED <<synthVars, deviceVars, decoyVars, adminVars>>
    \/ /\ \E p \in Profiles, v \in {0, 1} : UpdateUser(p.uuid, ("enabled" :> v), "ok")
       /\ UNCHANGED <<synthVars, deviceVars, decoyVars, adminVars>>
    \/ /\ \E w \in Workers, d \in Domains : ReloadBegin(w, d)
       /\ UNCHANGED elsewhereReload
    \/ /\ \E w \in Workers : WriteV2rayConfig(w)
       /\ UNCHANGED elsewhereReload
    \/ /\ \E w \in Workers, r \in {"ok", "failed"} : WriteCaddyfile(w, r)
       /\ UNCHANGED elsewhereReload

SpecConcurrent == Init /\ [][NextConcurrent]_vars

\* ---- one reload at a time, and the registry changing under it ----
NextSequential ==
    \/ /\ \E p \in Profiles : CreateUser(p.email, p.secret_path, p.uuid, 0, "", "ok")
       /\ UNCHANGED <<synthVars, deviceVars, decoyVars, adminVars>>
    \/ /\ \E p \in Profiles, v \in {0, 1} : UpdateUser(p.uuid, ("enabled" :> v), "ok")
       /\ UNCHANGED <<synthVars, deviceVars, decoyVars, adminVars>>
    \/ /\ \E d \in Domains : ReloadBegin(1, d)
       /\ UNCHANGED elsewhereReload
    \/ /\ WriteV2rayConfig(1)
       /\ UNCHANGED elsewhereReload
    \/ /\ \E r \in {"ok", "failed"} : WriteCaddyfile(1, r)
       /\ UNCHANGED elsewhereReload

SpecSequential == Init /\ [][NextSequential]_vars

\* ================================================================ claims
\* the users of a list that get a listener, by position
Eligible(us) == {i \in DOMAIN us : us[i].enabled # 0 /\ us[i].secret_path # ""}

\* the position in the list of its k-th eligible user
KthEligible(us, k) ==
    CHOOSE i \in Eligible(us) : Cardinality({j \in Eligible(us) : j <= i}) = k

PathIsSlashPlus(path, secret_path) ==
    /\ Len(path) = Len(secret_path) + 1
    /\ SubSeq(path, 1, 1) = "/"
    /\ SubSeq(path, 2, Len(path)) = secret_path

\* C1: generate_v2ray_config emits exactly one listener per user that is
\* enabled and has a non-empty secret_path, in input order; the k-th listener
\* authenticates exactly one credential, the uuid of the k-th such user, on
\* the path "/" followed by that same user's secret_path.
C1_OneListenerPerEligibleUser ==
    runs >= 1 =>
        /\ Len(config_json) = 1
        /\ LET us == in_sync.users
               inbounds == config_json[1].inbounds
           IN  /\ Len(inbounds) = Cardinality(Eligible(us))
               /\ \A k \in DOMAIN inbounds :
                    LET user == us[KthEligible(us, k)] IN
                    /\ Len(inbounds[k].clients) = 1
                    /\ inbounds[k].clients[1].id = user.uuid
                    /\ PathIsSlashPlus(inbounds[k].path, user.secret_path)

\* a list whose first user is disabled, whose second has no secret_path, and
\* whose third got the only listener
C1_Witness ==
    /\ runs >= 1
    /\ Len(in_sync.users) = 3
    /\ in_sync.users[1].enabled = 0 /\ in_sync.users[1].secret_path # ""
    /\ in_sync.users[2].enabled = 1 /\ in_sync.users[2].secret_path = ""
    /\ Eligible(in_sync.users) = {3}
    /\ Len(config_json[1].inbounds) = 1

Members(sq) == {sq[j] : j \in DOMAIN sq}

InboundsOf(file) == IF file = <<>> THEN <<>> ELSE file[Len(file)].inbounds
HandlesOf(file) == IF file = <<>> THEN <<>> ELSE file[Len(file)].user_handles

ListenersFor(file, user_uuid) ==
    {l \in Members(InboundsOf(file)) : l.clients[1].id = user_uuid}
RoutesFor(file, user_uuid) ==
    {h \in Members(HandlesOf(file)) : h.uuid = user_uuid}

\* this step is a synthesis whose user list is that of the previous synthesis
\* without its k-th user, who is now disabled in the registry; domain and base
\* port are as before
DisabledAndResynced(k) ==
    /\ config_json # <<>>
    /\ k \in DOMAIN synced.users
    /\ synced' # synced
    /\ synced'.domain = synced.domain
    /\ synced'.v2ray_port = synced.v2ray_port
    /\ Len(synced'.users) = Len(synced.users) - 1
    /\ Members(synced'.users) = Members(synced.users) \ {synced.users[k]}
    /\ \E j \in DOMAIN users : users[j] = [synced.users[k] EXCEPT !.enabled = 0]

ListenerAndRouteRemoved(k) ==
    /\ ListenersFor(config_json', synced.users[k].uuid) = {}
    /\ RoutesFor(caddyfile', synced.users[k].uuid) = {}

\* C2 as stated: disabling one identity and synthesizing again removes that
\* identity's listener and route, and every other identity's listener (port,
\* credential, path) and route are what they were before.
C2_OthersByteIdentical ==
    [][ \A k \in DOMAIN synced.users :
            DisabledAndResynced(k) =>
                /\ ListenerAndRouteRemoved(k)
                /\ \A w \in Members(synced'.users) :
                    /\ ListenersFor(config_json', w.uuid) = ListenersFor(config_json, w.uuid)
                    /\ RoutesFor(caddyfile', w.uuid) = RoutesFor(caddyfile, w.uuid) ]_vars

WithoutPort(l) == [f \in (DOMAIN l) \ {"port", "proxy"} |-> l[f]]

\* the list is the old one with position k taken out, the order kept
SameOrderWithout(new, old, k) ==
    /\ Len(new) = Len(old) - 1
    /\ \A j \in DOMAIN new : new[j] = (IF j < k THEN old[j] ELSE old[j + 1])

\* C2 amended: the disabled identity's listener and route are removed; every
\* other identity keeps exactly one listener and one route, with credential
\* and path unchanged, the route forwarding to the listener's port; ports are
\* renumbered base + index, so with the order of the others kept an identity
\* listed before the disabled one keeps its port and one listed after it moves
\* down by one.
C2_OthersKeepCredentialAndPath ==
    [][ \A k \in DOMAIN synced.users :
            DisabledAndResynced(k) =>
                /\ ListenerAndRouteRemoved(k)
                /\ Len(InboundsOf(config_json')) = Len(InboundsOf(config_json)) - 1
                /\ Len(HandlesOf(caddyfile')) = Len(HandlesOf(caddyfile)) - 1
                /\ \A j \in DOMAIN synced.users :
                    j # k =>
                    LET w == synced.users[j]
                        lo == ListenersFor(config_json, w.uuid)
                        ln == ListenersFor(config_json', w.uuid)
                        ro == RoutesFor(caddyfile, w.uuid)
                        rn == RoutesFor(caddyfile', w.uuid)
                    IN  /\ Cardinality(ln) = 1 /\ Cardinality(rn) = 1
                        /\ {WithoutPort(l) : l \in ln} = {WithoutPort(l) : l \in lo}
                        /\ {WithoutPort(h) : h \in rn} = {WithoutPort(h) : h \in ro}
                        /\ \A l \in ln, h \in rn : h.proxy = l.port /\ h.port = l.port
                        /\ SameOrderWithout(synced'.users, synced.users, k) =>
                              \A l \in ln, o \in lo :
                                  l.port = (IF j < k THEN o.port ELSE o.port - 1) ]_vars

\* three identities were synthesized, the second was then disabled, and the
\* synthesis that followed rendered the first and the third
C2_Witness ==
    /\ last.op = "reload_configs"
    /\ Len(users) = 3
    /\ users[1].enabled = 1 /\ users[2].enabled = 0 /\ users[3].enabled = 1
    /\ Len(synced.users) = 2
    /\ Len(InboundsOf(config_json)) = 2
    /\ InboundsOf(config_json)[2].clients[1].id = users[3].uuid
    /\ InboundsOf(config_json)[2].port = DefaultV2rayPort + 1

\* ---- C4: update_user and the immutable fields
IsUpdateStep == last'.op = "update_user" /\ Len(users') = Len(users)

\* C4 as stated: whatever keyword arguments update_user is given, the uuid and
\* the secret_path of every user are after the call what they were before.
C4_UpdateKeepsUuidAndSecretPath ==
    [][ IsUpdateStep =>
            \A j \in DOMAIN users :
                /\ users'[j].uuid = users[j].uuid
                /\ users'[j].secret_path = users[j].secret_path ]_vars

\* ---- C5: uniqueness
\* C5: no two user records share a uuid and no two share a secret_path.
C5_UuidAndSecretPathUnique ==
    \A i, j \in DOMAIN users :
        i # j => /\ users[i].uuid # users[j].uuid
                 /\ users[i].secret_path # users[j].secret_path

\* two users exist and an update that would have made them collide was refused
C5_Witness ==
    /\ Len(users) = 2
    /\ last.op = "update_user"
    /\ last.ret = "IntegrityError"

\* ---- C6: create_user on a collision
Collides(tbl, call) ==
    \E j \in DOMAIN tbl :
        \/ tbl[j].uuid = call.uuid
        \/ tbl[j].email = call.email
        \/ tbl[j].secret_path = call.secret_path

\* C6: create_user with a uuid, secret_path or email that is already in the
\* registry fails with ValueError, and the user records and the audit log are
\* after the failed call what they were before it.
C6_CreateConflictLeavesRegistry ==
    [][ (last'.op = "create_user" /\ (Collides(users, last') \/ last'.ret = "ValueError")) =>
            /\ last'.ret = "ValueError"
            /\ users' = users
            /\ audit_logs' = audit_logs ]_vars

\* a create_user was refused while a user and an audit entry existed
C6_Witness ==
    /\ last.op = "create_user"
    /\ last.ret = "ValueError"
    /\ Len(users) >= 1
    /\ Len(audit_logs) >= 1

\* ---- C7 ----
RowsOfKey(tbl, call) ==
    {r \in tbl : /\ r.user_id = call.user_id
                 /\ r.user_agent = call.user_agent
                 /\ r.source_ip = call.source_ip}

\* C7: a successful record_device_access for a key leaves exactly one row
\* for that key; the first record of a key stores access_count = 1 and
\* first_seen_at = last_seen_at; every later one adds 1 to access_count, sets
\* last_seen_at to the current time, overwrites accessed_path and leaves
\* first_seen_at alone; the rows of all other keys are untouched; and no
\* state holds two rows of one key.
C7_RecordDeviceAccessUpserts ==
    [][ /\ \A r1 \in device_access_logs', r2 \in device_access_logs' :
              ( /\ r1.user_id = r2.user_id
                /\ r1.user_agent = r2.user_agent
                /\ r1.source_ip = r2.source_ip ) => r1 = r2
        /\ device_access_logs' # device_access_logs =>
            LET call == last'
                old == RowsOfKey(device_access_logs, call)
                new == RowsOfKey(device_access_logs', call)
            IN  /\ call.op = "record_device_access"
                /\ call.ret = TRUE
                /\ Cardinality(new) = 1
                /\ device_access_logs' \ new = device_access_logs \ old
                /\ \A r \in new :
                     /\ r.accessed_path = call.accessed_path
                     /\ r.last_seen_at = now
                     /\ IF old = {}
                        THEN /\ r.access_count = 1
                             /\ r.first_seen_at = r.last_seen_at
                        ELSE \A o \in old :
                               /\ r.access_count = o.access_count + 1
                               /\ r.first_seen_at = o.first_seen_at
        /\ (last'.op = "record_device_access" /\ last' # last /\ last'.ret = TRUE)
              => device_access_logs' # device_access_logs
      ]_vars

\* a key recorded three times at two different times under a changed path,
\* next to a row of another key
C7_Witness ==
    /\ last.op = "record_device_access"
    /\ last.ret = TRUE
    /\ \E r \in device_access_logs :
         /\ r.user_id = last.user_id
         /\ r.user_agent = last.user_agent
         /\ r.source_ip = last.source_ip
         /\ r.access_count = 3
         /\ r.first_seen_at < r.last_seen_at
    /\ Cardinality(device_access_logs) = 2

\* ---- C8 ----
RangeNums == {0, 1, 99, 100, 999, 1000, 65535, 65536, 149999}

\* the chunks are exactly the bytes at offsets s..e, in order
BodyIs(body, s, e) ==
    IF e < s THEN body = <<>>
    ELSE /\ body # <<>>
         /\ body[1].offset = s
         /\ \A j \in DOMAIN body : body[j].length > 0
         /\ \A j \in 1..(Len(body) - 1) :
               body[j + 1].offset = body[j].offset + body[j].length
         /\ body[Len(body)].offset + body[Len(body)].length - 1 = e

Answers206(s, e, N) ==
    /\ response.status = 206
    /\ response.headers["Content-Range"] =
          "bytes " \o ToString(s) \o "-" \o ToString(e) \o "/" \o ToString(N)
    /\ response.headers["Content-Length"] = ToString(e - s + 1)
    /\ BodyIs(response.body, s, e)

\* C8: for a video of N bytes, a request with Range 'bytes=s-e', 0 <= s <= e < N,
\* is answered 206 with Content-Range 'bytes s-e/N', Content-Length e-s+1 and
\* exactly the bytes s..e; an omitted end means N-1; a request without Range
\* is answered with all N bytes, Accept-Ranges 'bytes' and Content-Length N.
C8_RangeRequestsServed ==
    (video_file.exists /\ response # NoResponse) =>
        LET N == video_file.size
        IN  /\ \A s \in RangeNums, e \in RangeNums :
                 ( /\ s <= e
                   /\ e < N
                   /\ request.range = "bytes=" \o ToString(s) \o "-" \o ToString(e) )
                 => Answers206(s, e, N)
            /\ \A s \in RangeNums :
                 (s < N /\ request.range = "bytes=" \o ToString(s) \o "-")
                 => Answers206(s, N - 1, N)
            /\ request.range = ""
                 => /\ response.status = 200
                    /\ response.headers["Accept-Ranges"] = "bytes"
                    /\ response.headers["Content-Length"] = ToString(N)
                    /\ BodyIs(response.body, 0, N - 1)

\* 'bytes=0-99' of a 1000-byte video: 206, 'bytes 0-99/1000', 100 bytes
C8_Witness ==
    /\ video_file = [exists |-> TRUE, size |-> 1000]
    /\ response.status = 206
    /\ request.range = "bytes=0-99"
    /\ response.headers["Content-Range"] = "bytes 0-99/1000"
    /\ response.headers["Content-Length"] = "100"
    /\ response.body = <<[offset |-> 0, length |-> 100]>>

\* ---- C9 ----
StreamOpen == sse.pc \in {"draw", "sleep", "yield"}

\* C9: the event stream never completes on its own: it ends only in a step in
\* which the client disconnects; every wait is between 1 and 300 seconds; an
\* event is emitted exactly when a whole wait has elapsed, one per wait; the
\* first event comes no earlier than 1 s and no later than 300 s after the
\* stream opened; and while the client stays, another event always follows.
C9_StreamRepeatsUntilDisconnect ==
    /\ [][ (StreamOpen /\ sse'.pc = "closed")
              => (sse.connected /\ ~sse'.connected) ]_vars
    /\ []( sse.pc = "sleep" =>
              /\ sse.wait_seconds >= 1
              /\ sse.wait_seconds <= 300
              /\ sse.slept <= sse.wait_seconds )
    /\ [][ (StreamOpen /\ (sse'.pc = "yield" /\ sse.pc # "yield"))
              => /\ sse.pc = "sleep"
                 /\ sse.slept = sse.wait_seconds
                 /\ sse'.events = Min(sse.events + 1, MaxEvents) ]_vars
    /\ [][ (StreamOpen /\ sse'.pc # "closed" /\ sse'.events # sse.events)
              => (sse'.pc = "yield" /\ sse.pc = "sleep") ]_vars
    /\ [][ (sse.pc = "yield" /\ sse'.pc # "yield" /\ sse'.pc # "closed")
              => sse'.pc = "draw" ]_vars
    /\ [][ (StreamOpen /\ sse.events = 0 /\ sse'.events = 1)
              => (sse.since_open >= 1 /\ sse.since_open <= 300) ]_vars
    /\ (sse.pc = "draw" /\ sse.connected) ~> (sse.pc = "yield" \/ ~sse.connected)

\* a second event is being sent after a wait of 300 s, the client still there
C9_Witness ==
    /\ sse.pc = "yield"
    /\ sse.connected
    /\ sse.events = 2
    /\ sse.wait_seconds = 300
    /\ sse.slept = 300

\* ---- C10 ----
\* C10: no administrative operation is executed unless the request carries a
\* bearer credential equal to the configured API_SECRET, and a deployment
\* without API_SECRET does not come up: it serves no request at all.
C10_AdminRequiresBearer ==
    /\ Started => api_secret # ""
    /\ admin.op \in AdminOps =>
          (api_secret # "" /\ admin.credentials = api_secret)

\* ---- C11 ----
\* C11: the listeners of generate_v2ray_config have pairwise distinct ports:
\* the k-th listener, counted from 0 over the emitted ones only, is bound to
\* v2ray_port_base + k, so n listeners occupy exactly base..base+n-1.
C11_ListenerPortsDense ==
    runs >= 1 =>
        LET inbounds == config_json[1].inbounds
            base == in_sync.v2ray_port
        IN  /\ \A k \in DOMAIN inbounds : inbounds[k].port = base + (k - 1)
            /\ \A j, k \in DOMAIN inbounds : j # k => inbounds[j].port # inbounds[k].port
            /\ {inbounds[k].port : k \in DOMAIN inbounds}
                  = {q \in base..(base + Len(inbounds) - 1) : TRUE}

\* two listeners were rendered around a skipped user in the middle
C11_Witness ==
    /\ runs >= 1
    /\ Len(in_sync.users) = 3
    /\ Eligible(in_sync.users) = {1, 3}
    /\ Len(config_json[1].inbounds) = 2
    /\ config_json[1].inbounds[2].port = in_sync.v2ray_port + 1

\* ---- C12 ----
\* C12: the routing table of generate_caddyfile has a route for exactly the
\* users that got a listener from generate_v2ray_config, in the same order,
\* and each route forwards its user's path to the port of that user's
\* listener, also with disabled users or users without secret_path between.
C12_RoutesMatchListeners ==
    runs >= 1 =>
        LET inbounds == config_json[1].inbounds
            handles == caddyfile[1].user_handles
        IN  /\ Len(handles) = Len(inbounds)
            /\ Len(handles) = Cardinality(Eligible(in_sync.users))
            /\ \A k \in DOMAIN handles :
                 /\ handles[k].uuid = inbounds[k].clients[1].id
                 /\ handles[k].uuid = in_sync.users[KthEligible(in_sync.users, k)].uuid
                 /\ handles[k].path = inbounds[k].path
                 /\ handles[k].proxy = inbounds[k].port

\* a disabled user first, then two users that each got a route
C12_Witness ==
    /\ runs >= 1
    /\ Len(in_sync.users) = 3
    /\ in_sync.users[1].enabled = 0
    /\ Eligible(in_sync.users) = {2, 3}
    /\ Len(caddyfile[1].user_handles) = 2
    /\ caddyfile[1].user_handles[1].proxy = in_sync.v2ray_port

\* ---- C13 ----
UserIdsOf(tbl) == {tbl[j].id : j \in DOMAIN tbl}

\* C13: delete(uuid) of an existing user removes the user record and detaches
\* its device rows: after the delete no device_access_logs row references the
\* id of the deleted user.
C13_DeleteDetachesDeviceRows ==
    [][ (last'.op = "delete_user" /\ last'.ret = "True" /\ users' # users)
          => \A gone \in UserIdsOf(users) \ UserIdsOf(users') :
                \A r \in device_access_logs' : r.user_id # gone ]_vars

\* ---- C14 ----
\* C14: when the restart of the tunnel daemon fails or times out,
\* reload_configs returns a result with success = false and a message naming
\* the failure, and rolls nothing back: the registry stays as it was and the
\* documents it has just written from the registry stay written.
C14_RestartFailureKeepsState ==
    [][ ( /\ last'.op = "reload_configs"
          /\ now' = now
          /\ last'.message \in {"failed", "timeout"} )
        => /\ last'.success = FALSE
           /\ users' = users
           /\ audit_logs' = audit_logs
           /\ settings' = settings
           /\ \E us \in GetAllUsers(users, TRUE) :
                /\ config_json' = <<GenerateV2rayConfig(us, DefaultV2rayPort)>>
                /\ \E d \in Domains :
                     caddyfile' = <<GenerateCaddyfile(d, us, DefaultV2rayPort, FALSE)>>
      ]_vars

\* a user was disabled, the reload wrote documents without it and the restart
\* timed out: the user is still disabled and the documents still lack it
C14_Witness ==
    /\ last.op = "reload_configs"
    /\ last.message = "timeout"
    /\ last.success = FALSE
    /\ Len(users) = 2
    /\ users[1].enabled = 0
    /\ users[2].enabled = 1
    /\ Len(config_json) = 1
    /\ Len(config_json[1].inbounds) = 1
    /\ config_json[1].inbounds[1].clients[1].id = users[2].uuid

\* ---- C15 ----
RecognizedFields == {"email", "secret_path", "level", "enabled", "notes"}

CarriesNoCache(resp) ==
    /\ "headers" \in DOMAIN resp
    /\ {"Cache-Control", "Pragma", "Expires"} \subseteq DOMAIN resp.headers
    /\ resp.headers["Cache-Control"] = "no-cache, no-store, must-revalidate"
    /\ resp.headers["Pragma"] = "no-cache"
    /\ resp.headers["Expires"] = "0"

\* C16: every response on /stream/{token}.mp4 carries Cache-Control:
\* no-cache, no-store, must-revalidate, Pragma: no-cache and Expires: 0, for
\* range responses, full responses and the response for a missing file alike.
C16_EveryMediaResponseNoCache ==
    response # NoResponse => CarriesNoCache(response)

\* ---- C17 ----
AsksForEventStream(accept) ==
    \E i \in 1..Len(accept) :
        /\ i + 16 <= Len(accept)
        /\ SubSeq(accept, i, i + 16) = "text/event-stream"

StaticDocument ==
    IF decoy_html THEN [status |-> 200, file |-> "decoy.html"]
    ELSE [status |-> 404, content |-> "Not Found"]

\* C17: a request to the disguise path whose Accept header does not contain
\* text/event-stream gets the response a request to "/" gets, the static
\* decoy document, and a request to any other path of the catch-all gets 404.
C17_DisguisePathServesStaticDocument ==
    /\ request.path = "/" => response = StaticDocument
    /\ (request.path = "/" \o DECOY_PATH /\ ~AsksForEventStream(request.accept))
          => response = StaticDocument
    /\ request.path \notin {"none", "/", "/" \o DECOY_PATH}
          => response.status = 404

\* the disguise path asked for with Accept: text/html got decoy.html
C17_Witness ==
    /\ request.path = "/" \o DECOY_PATH
    /\ request.accept = "text/html"
    /\ decoy_html
    /\ response = [status |-> 200, file |-> "decoy.html"]

\* ---- C18 ----
\* C18: a request on the decoy surface that is not served with content is
\* answered 404, never 500, whatever headers it carries: a missing file gives
\* 404 and no request gives 500.
C18_DecoyFailuresAre404 ==
    response # NoResponse =>
        /\ ~video_file.exists => response.status = 404
        /\ response.status \notin {200, 206} => response.status = 404
        /\ response.status # 500

\* ---- C19 ----
Missing(user_uuid) == \A j \in DOMAIN users : users[j].uuid # user_uuid

EmailOfAnother(user_uuid, body) ==
    /\ "email" \in DOMAIN body
    /\ \E j \in DOMAIN users :
          users[j].uuid # user_uuid /\ users[j].email = body["email"]

\* C19: a create or update request that violates a uniqueness constraint is
\* answered 409 or 400, not 500, and leaves the registry unchanged; a request
\* naming a missing identity is answered 404; an update with no field is
\* answered 400.
C19_ConflictsAreClientErrors ==
    [][ /\ \A c \in Credentials, u \in Uuids, b \in UpdateBodies :
             ApiUpdateUser(c, u, b) =>
                /\ Missing(u) => admin'.status = 404
                /\ (~Missing(u) /\ DOMAIN b = {}) => admin'.status = 400
                /\ (~Missing(u) /\ EmailOfAnother(u, b)) =>
                      /\ admin'.status \in {400, 409}
                      /\ users' = users
                      /\ audit_logs' = audit_logs
        /\ \A c \in Credentials, e \in Emails, a \in AuditOutcomes :
             (ApiCreateUser(c, e, a) /\ \E j \in DOMAIN users : users[j].email = e) =>
                /\ admin'.status \in {400, 409}
                /\ users' = users
                /\ audit_logs' = audit_logs
        /\ \A c \in Credentials, u \in Uuids :
             ( /\ Missing(u)
               /\ \/ ApiGetUser(c, u)
                  \/ ApiDeleteUser(c, u)
                  \/ ApiListUserDevices(c, u) ) => admin'.status = 404
      ]_vars

\* ---- C20 ----
\* the users table holds its rows in the order of their creation
InCreationOrder(enabled_only) ==
    IF enabled_only THEN SelectSeq(users, LAMBDA r : r.enabled = 1) ELSE users

\* C20: get_all_users returns the users in creation order, also those created
\* within one tick of the clock, and with enabled_only exactly the enabled ones.
C20_ListInCreationOrder ==
    last.op = "get_all_users" => last.ret = InCreationOrder(last.enabled_only)

\* ---- C21 ----
AllIdle == \A w \in Workers : reloads[w].pc = "idle"

\* the listeners of one document and the routes of the other come from one
\* list of users: the same users in the same order, each with its path and port
FromOneSnapshot(cfg, cad) ==
    LET inbounds == InboundsOf(cfg)
        handles == HandlesOf(cad)
    IN  /\ Len(inbounds) = Len(handles)
        /\ \A k \in DOMAIN inbounds :
             /\ inbounds[k].clients[1].id = handles[k].uuid
             /\ inbounds[k].clients[1].email = handles[k].email
             /\ inbounds[k].path = handles[k].path
             /\ inbounds[k].port = handles[k].proxy

\* C21: under any interleaving of reload_configs runs with registry mutations
\* and with one another no torn configuration results: once every run under
\* way has finished, config.json and the Caddyfile are both derived from one
\* and the same snapshot of the enabled users.
C21_NoTornConfiguration ==
    (AllIdle /\ config_json # <<>> /\ caddyfile # <<>>)
        => FromOneSnapshot(config_json, caddyfile)

\* ---- C27 ----
\* what the run under way renders from the users it has read
OwnV2rayConfig(w) ==
    <<GenerateV2rayConfig(reloads[w].users, reloads[w].v2ray_port)>>
OwnCaddyfile(w) ==
    <<GenerateCaddyfile(reloads[w].domain, reloads[w].users,
                        reloads[w].v2ray_port, UseStaging)>>

\* C27: sync_all_configs is not atomic across the two documents and writes
\* them in one order: within a single run config.json is written first, alone,
\* and the Caddyfile second, alone, when config.json already holds the run's
\* listeners; so a reader can find the new config.json beside the stale
\* Caddyfile, and never the new Caddyfile beside the stale config.json.
C27_V2rayConfigBeforeCaddyfile ==
    [][ /\ config_json' # config_json =>
            /\ caddyfile' = caddyfile
            /\ config_json' = OwnV2rayConfig(1)
        /\ caddyfile' # caddyfile =>
            /\ config_json' = config_json
            /\ config_json = OwnV2rayConfig(1)
            /\ caddyfile' = OwnCaddyfile(1)
      ]_vars

\* between the two writes of a run: config.json lists two users, the
\* Caddyfile of the run before still routes one
C27_Witness ==
    /\ reloads[1].pc = "write_caddyfile"
    /\ config_json = OwnV2rayConfig(1)
    /\ Len(InboundsOf(config_json)) = 2
    /\ caddyfile # <<>>
    /\ Len(HandlesOf(caddyfile)) = 1
    /\ caddyfile # OwnCaddyfile(1)

\* ---- C28 ----
\* the number of bytes the chunks of a body carry
RECURSIVE BodyLength(_)
BodyLength(body) ==
    IF body = <<>> THEN 0 ELSE body[1].length + BodyLength(Tail(body))

\* C28: for every Range header that serve_video_segment accepts (answers 206),
\* the Content-Length it sends equals the number of body bytes it streams,
\* also when the end is at or beyond the file size, when the start is beyond
\* the file size, and when the start exceeds the end.
C28_ContentLengthIsBodyLength ==
    response.status = 206 =>
        response.headers["Content-Length"] = ToString(BodyLength(response.body))

\* ---- C24 ----
\* C24: record_device_access fails open: whatever storage error occurs while
\* recording, failing to open the store included, the call returns False, no
\* exception reaches the caller, and the rows of the log are left as they were.
C24_RecordDeviceAccessFailsOpen ==
    [][ (last'.op = "record_device_access" /\ last' # last) =>
            /\ last'.raised = ""
            /\ last'.ret = FALSE => device_access_logs' = device_access_logs
      ]_vars

\* ---- C22 ----
\* a path matcher of the routing table: a trailing * matches any rest
PathMatches(pattern, path) ==
    IF Len(pattern) > 0 /\ SubSeq(pattern, Len(pattern), Len(pattern)) = "*"
    THEN /\ Len(path) >= Len(pattern) - 1
         /\ SubSeq(path, 1, Len(pattern) - 1) = SubSeq(pattern, 1, Len(pattern) - 1)
    ELSE pattern = path

\* the first block, in the order of the text, whose matcher takes the path
FirstMatch(blocks, path) ==
    CHOOSE k \in DOMAIN blocks :
        /\ PathMatches(blocks[k], path)
        /\ \A j \in 1..(k - 1) : ~PathMatches(blocks[j], path)

\* C22: in the rendered routing table every per-user route stands before the
\* fixed administrative routes and before the catch-all '/*', for every user
\* list, so that a request to a rendered user path is taken by that user's
\* route and never by the catch-all.
C22_UserRoutesBeforeCatchAll ==
    runs >= 1 =>
        LET handles == caddyfile[1].user_handles
            blocks == HandleBlocks(caddyfile[1])
            n == Len(handles)
        IN  /\ Len(blocks) = n + Len(FixedRoutes)
            /\ \A k \in 1..n : blocks[k] = handles[k].path
            /\ SubSeq(blocks, n + 1, Len(blocks)) = FixedRoutes
            /\ blocks[Len(blocks)] = "/*"
            /\ \A k \in 1..n :
                 LET m == FirstMatch(blocks, handles[k].path)
                 IN  /\ m <= n
                     /\ handles[m].uuid = handles[k].uuid
                     /\ handles[m].proxy = in_sync.v2ray_port + m - 1

\* three users routed: the path of the third is taken by the third block,
\* the catch-all is the eighth
C22_Witness ==
    /\ runs >= 1
    /\ Len(caddyfile[1].user_handles) = 3
    /\ FirstMatch(HandleBlocks(caddyfile[1]), caddyfile[1].user_handles[3].path) = 3
    /\ HandleBlocks(caddyfile[1])[8] = "/*"

\* ---- C23 ----
\* the positions of a list at which an enabled user has no secret_path
WithoutSecretPath(us) == {i \in DOMAIN us : us[i].enabled # 0 /\ us[i].secret_path = ""}

\* C23: a user whose secret_path is missing or empty is skipped by both
\* generate_v2ray_config and generate_caddyfile, the synthesis returns without
\* an error, and every other eligible user of the list is still rendered in
\* both documents.
C23_MissingSecretPathSkipped ==
    runs >= 1 =>
        LET us == in_sync.users
            inbounds == config_json[1].inbounds
            handles == caddyfile[1].user_handles
        IN  /\ last.op = "sync_all_configs"
            /\ \A k \in DOMAIN inbounds : inbounds[k].path # "/"
            /\ \A k \in DOMAIN handles : handles[k].path # "/"
            /\ \A i \in WithoutSecretPath(us) :
                 /\ Cardinality({k \in DOMAIN inbounds :
                                   inbounds[k].clients[1].id = us[i].uuid})
                      = Cardinality({j \in Eligible(us) : us[j].uuid = us[i].uuid})
                 /\ Cardinality({k \in DOMAIN handles : handles[k].uuid = us[i].uuid})
                      = Cardinality({j \in Eligible(us) : us[j].uuid = us[i].uuid})
            /\ \A i \in Eligible(us) :
                 /\ \E k \in DOMAIN inbounds :
                      /\ inbounds[k].clients[1].id = us[i].uuid
                      /\ inbounds[k].path = "/" \o us[i].secret_path
                 /\ \E k \in DOMAIN handles :
                      /\ handles[k].uuid = us[i].uuid
                      /\ handles[k].path = "/" \o us[i].secret_path

\* an enabled user without secret_path between two eligible users: the two
\* are rendered in both documents, the one between them in neither
C23_Witness ==
    /\ runs >= 1
    /\ Len(in_sync.users) = 3
    /\ WithoutSecretPath(in_sync.users) = {2}
    /\ Eligible(in_sync.users) = {1, 3}
    /\ in_sync.users[1].uuid # in_sync.users[2].uuid
    /\ in_sync.users[3].uuid # in_sync.users[2].uuid
    /\ in_sync.users[1].uuid # in_sync.users[3].uuid
    /\ Len(config_json[1].inbounds) = 2
    /\ Len(caddyfile[1].user_handles) = 2
    /\ config_json[1].inbounds[2].clients[1].id = in_sync.users[3].uuid
    /\ caddyfile[1].user_handles[2].uuid = in_sync.users[3].uuid

\* ---- C30 ----
\* C30: first-deployment initialization happens exactly once: from a store
\* without the 'initialized' marker initialize_system creates exactly one
\* default user, then sets the marker and returns success; on a run with the
\* marker set it creates no user and changes no setting; and it never sets
\* the marker without having created the default user.
C30_InitializedExactlyOnce ==
    [][ \A sp \in SecretPaths, a \in AuditOutcomes :
          InitializeSystem(sp, a) =>
            /\ ~IsInitialized(settings) =>
                 /\ Len(users') = Len(users) + 1
                 /\ users'[Len(users')].email = DefaultUserArgs["email"]
                 /\ IsInitialized(settings')
                 /\ last'.ret = TRUE
            /\ IsInitialized(settings) =>
                 /\ users' = users
                 /\ settings' = settings
            /\ (IsInitialized(settings') /\ ~IsInitialized(settings)) =>
                 Len(users') = Len(users) + 1
      ]_vars

\* ---- C25 ----
IsPrefix(a, b) == Len(a) <= Len(b) /\ SubSeq(b, 1, Len(a)) = a

\* a step changed the registry
TookEffect == users' # users \/ settings' # settings

\* the audit action that a successful call writes
AuditActionOf(call) ==
    CASE call.op = "create_user" /\ call.ret = "user" -> "create_user"
      [] call.op = "update_user" /\ call.ret = "True" -> "update_user"
      [] call.op = "delete_user" /\ call.ret = "True" -> "delete_user"
      [] call.op = "set_setting" -> "update_setting"
      [] OTHER -> "none"

AsIf(A) ==
    \E U \in {users'}, S \in {settings'}, L \in {last'} :
        ENABLED (A /\ users' = U /\ settings' = S /\ last' = L)

\* C26: when the audit write fails during create_user, update_user,
\* delete_user or set_setting, the failure is swallowed: the operation raises
\* nothing because of it, returns the same result, and leaves the registry
\* exactly as the same call with a successful audit write leaves it.
C26_AuditFailureSwallowed ==
    [][ \A a \in AuditOutcomes \ {"ok"} :
          /\ \A p \in Profiles :
               /\ CreateUser(p.email, p.secret_path, p.uuid, 0, "", a)
                    => AsIf(CreateUser(p.email, p.secret_path, p.uuid, 0, "", "ok"))
               /\ DeleteUser(p.uuid, a) => AsIf(DeleteUser(p.uuid, "ok"))
               /\ \A v \in {0, 1} :
                    UpdateUser(p.uuid, ("enabled" :> v), a)
                       => AsIf(UpdateUser(p.uuid, ("enabled" :> v), "ok"))
          /\ \A pt \in PortSettings :
               SetSetting("v2ray_port", pt, a)
                  => AsIf(SetSetting("v2ray_port", pt, "ok"))
      ]_vars

\* ---- C29 ----
\* C29: the user_count that reload_configs returns equals the number of
\* listeners it wrote to config.json and of user routes it wrote to the
\* Caddyfile in that run, for every registry state, also when an enabled
\* user has an empty secret_path.
C29_UserCountIsListenerCount ==
    last.op = "reload_configs" =>
        /\ last.user_count = Len(InboundsOf(config_json))
        /\ last.user_count = Len(HandlesOf(caddyfile))
====
